---- MODULE Spec2Model ----
(***************************************************************************)
(* Conversation Session Controller of the RMdev chat widget.               *)
(*                                                                         *)
(* The widget exists in two builds that share every function except        *)
(* sendMessage: the production build (src/production_build/frontend/app.js)*)
(* reads a newline-delimited JSON stream, the other build                  *)
(* (src/unnamed/part_000) reads one JSON object.  The functions the        *)
(* production file elides ("rest of functions") are those of part_000.     *)
(***************************************************************************)
EXTENDS Integers, Sequences, FiniteSets, TLC

(***************************************************************************)
(* Bounds of the model.                                                    *)
(***************************************************************************)
MaxSends == 1       \* sendMessage calls that pass the guards, per behaviour
MaxResets == 1      \* resetChat calls per behaviour
MaxInFlight == 1    \* chat requests in flight at once
MaxLeads == 1       \* lead submissions in flight at once
MaxSubmits == 1     \* handleLeadSubmit calls that pass validation, per behaviour
MaxReads == 2       \* reads delivered on one response stream
MaxGateReads == 1   \* the same, in the Lead Gate specification
MaxConcSends == 2   \* sendMessage calls, in the concurrency specification
MaxConcInFlight == 2 \* chat requests in flight at once, in the same
MaxConcReads == 1   \* reads delivered on one stream, in the same
MaxLeadSubmits == 2 \* handleLeadSubmit calls, in the lead specification
MaxLeadsInFlight == 2 \* lead submissions in flight at once, in the same
MaxWire == 5
MaxErrLines == 3
MaxFormReads == 2        \* tokens of response text, in the decoder specification

(***************************************************************************)
(* JavaScript values.  U is undefined/null; a string is truthy unless      *)
(* empty.  An object that may be absent carries a present flag.            *)
(***************************************************************************)
U == "undefined"

Truthy(v) == v # U /\ v # ""

\* a || b on strings
Or(a, b) == IF Truthy(a) THEN a ELSE b

(***************************************************************************)
(* Profile and RoutingSignal, as the backend returns them.                 *)
(***************************************************************************)
MkProfile(st, em, ph, pn, rd, sm) ==
    [present |-> TRUE, stage |-> st, contact_email |-> em, contact_phone |-> ph,
     product_name |-> pn, requested_date |-> rd, summary |-> sm,
     intent |-> U, urgency |-> U]

EmptyProfile == MkProfile(U, U, U, U, U, U)

NoProfile == [EmptyProfile EXCEPT !.present = FALSE]

MkRouting(lc, it, sm, ur) ==
    [present |-> TRUE, lead_capture |-> lc, intent |-> it, summary |-> sm, urgency |-> ur]

NoRouting == [present |-> FALSE, lead_capture |-> U, intent |-> U, summary |-> U, urgency |-> U]

NoMeta == [present |-> FALSE, intent |-> U, summary |-> U, urgency |-> U]

\* every combination of the fields handleRouting reads
GateProfiles ==
    {NoProfile} \cup
    { MkProfile(st, em, ph, pn, rd, U) :
        st \in {U, "contact", "schedule", "browse"}, em \in {U, "a@b.c"},
        ph \in {U, "555"}, pn \in {U, "sofa"}, rd \in {U, "friday"} }

GateRoutings ==
    {NoRouting} \cup
    { MkRouting(lc, it, U, U) :
        lc \in {"yes", "no"}, it \in {U, "book", "buy", "pricing", "search"} }

\* representative values for the controller specification
Profiles ==
    { NoProfile,
      MkProfile("browse", U, U, U, U, U),
      MkProfile("contact", U, U, U, U, "psum"),
      MkProfile(U, "a@b.c", U, "sofa", U, U) }

Routings ==
    { NoRouting,
      MkRouting("no", "search", U, U),
      MkRouting("yes", U, "rsum", "now") }


(***************************************************************************)
(* StreamEvent values and the result payload.                              *)
(***************************************************************************)
MkData(cid, rt, pf, lc) ==
    [present |-> TRUE, conversation_id |-> cid, reply |-> "reply",
     routing |-> rt, profile |-> pf, lead_captured |-> lc]

NoData ==
    [present |-> FALSE, conversation_id |-> U, reply |-> U,
     routing |-> NoRouting, profile |-> NoProfile, lead_captured |-> FALSE]

MkEvent(ty, d) == [type |-> ty, data |-> d]

NoEvent == MkEvent("none", NoData)

(***************************************************************************)
(* Conversation ids.  makeConversationId draws a fresh random id; the n-th *)
(* id drawn is ClientId(n).  The backend may echo the id it was sent,      *)
(* rename it, or send none.                                                *)
(***************************************************************************)
ClientId(n) == [src |-> "client", n |-> n]

ServerId == [src |-> "server", n |-> 1]

UndefinedId == [src |-> "undefined", n |-> 0]

EmptyId == [src |-> "empty", n |-> 0]

(***************************************************************************)
(* Children of chatBody.                                                   *)
(***************************************************************************)
Node(kind) == [kind |-> kind, email |-> "", phone |-> "", summary |-> "", contact |-> ""]

FormNode(em, ph, sm, ct) ==
    [kind |-> "lead-form", email |-> em, phone |-> ph, summary |-> sm, contact |-> ct]

MessageKinds == {"user", "assistant", "apology", "not-configured", "thanks"}

RECURSIVE Without(_, _)
\* the sequence body without its first node of the given kind
Without(body, kind) ==
    IF body = <<>> THEN <<>>
    ELSE IF Head(body).kind = kind THEN Tail(body)
    ELSE <<Head(body)>> \o Without(Tail(body), kind)

Has(body, kind) == \E i \in 1..Len(body) : body[i].kind = kind

Count(body, kinds) == Cardinality({i \in 1..Len(body) : body[i].kind \in kinds})

(***************************************************************************)
(* The handlers, as functions on the widget state w (a record of the       *)
(* script's variables, the DOM state it touches, the pending timers and    *)
(* the lead submissions in flight).                                        *)
(***************************************************************************)
Streaming(w) == w.build = "stream"

saveConversation(w, id) == [w EXCEPT !.conversationId = id]

appendMessage(w, kind) == [w EXCEPT !.chatBody = Append(@, Node(kind))]

\* a lead form leaves the document: submissions in flight keep a detached form
DetachForm(w) ==
    [w EXCEPT !.chatBody = Without(@, "lead-form"),
              !.leads = [i \in DOMAIN @ |-> [@[i] EXCEPT !.attached = FALSE]]]

\* chatBody.childElementCount
childElementCount(w) ==
    Len(w.chatBody) + (IF w.chips THEN 1 ELSE 0) + (IF w.typingAttached THEN 1 ELSE 0)

renderSuggestions(w) == [w EXCEPT !.chips = TRUE]

\* the class open of the widget and the launcher's display are styling, not state
openChat(w) ==
    IF Streaming(w) /\ childElementCount(w) <= 1 THEN renderSuggestions(w) ELSE w

createTypingBubble(w) ==
    [w EXCEPT !.typingBubble = TRUE, !.typingShown = FALSE, !.typingText = "Thinking...",
              !.typingAttached = TRUE]

showTyping(w, show) ==
    IF Streaming(w)
    THEN LET c == IF w.typingBubble THEN w ELSE createTypingBubble(w)
         IN  IF show
             THEN [c EXCEPT !.chips = FALSE,
                            !.typingAttached = TRUE,
                            !.typingText = "flavor",
                            !.typingShown = TRUE]
             ELSE [c EXCEPT !.typingShown = FALSE]
    ELSE [w EXCEPT !.typingShown = show]

\* an end of session that leaves the send button enabled
endChatSession_leavesSendEnabled(w) ==
    [w EXCEPT !.chatEnded = TRUE, !.chatInput = "", !.inputDisabled = TRUE,
              !.inputAreaHidden = TRUE, !.ratingHidden = FALSE]

endChatSession(w) ==
    [w EXCEPT !.chatEnded = TRUE, !.chatInput = "", !.inputDisabled = TRUE,
              !.sendDisabled = TRUE, !.inputAreaHidden = TRUE, !.ratingHidden = FALSE]

\* a handler that records the rating and leaves the inputs enabled
handleRating_leavesUnlocked(w, value) ==
    [w EXCEPT !.sessionRating = value, !.thankYouHidden = FALSE]

handleRating(w, value) ==
    [w EXCEPT !.sessionRating = value, !.thankYouHidden = FALSE,
              !.ratingInputsDisabled = TRUE]

updateProfilePanel(w, profile) ==
    [w EXCEPT !.latestProfile = IF profile.present THEN profile ELSE EmptyProfile]

\* a form whose contact method always starts at email
renderLeadForm_emailDefault(w, routing, force, profile) ==
    IF w.leadFormVisible /\ ~force THEN w
    ELSE LET d == IF Has(w.chatBody, "lead-form") THEN DetachForm(w) ELSE w
             summaryText == Or(routing.summary, Or(profile.summary, "generic prompt"))
             emailOnFile == Or(profile.contact_email, "")
             phoneOnFile == Or(profile.contact_phone, "")
         IN  [d EXCEPT !.pendingLeadMeta =
                           [present |-> TRUE,
                            intent |-> Or(routing.intent, Or(profile.intent, "other")),
                            summary |-> summaryText,
                            urgency |-> Or(routing.urgency, Or(profile.urgency, "unknown"))],
                       !.chatBody = Append(@, FormNode(emailOnFile, phoneOnFile,
                                                        summaryText, "email")),
                       !.leadFormVisible = TRUE]

renderLeadForm(w, routing, force, profile) ==
    IF w.leadFormVisible /\ ~force THEN w
    ELSE LET d == IF Has(w.chatBody, "lead-form") THEN DetachForm(w) ELSE w
             summaryText == Or(routing.summary, Or(profile.summary, "generic prompt"))
             emailOnFile == Or(profile.contact_email, "")
             phoneOnFile == Or(profile.contact_phone, "")
             defaultContact == IF Truthy(phoneOnFile) THEN "text" ELSE "email"
         IN  [d EXCEPT !.pendingLeadMeta =
                           [present |-> TRUE,
                            intent |-> Or(routing.intent, Or(profile.intent, "other")),
                            summary |-> summaryText,
                            urgency |-> Or(routing.urgency, Or(profile.urgency, "unknown"))],
                       !.chatBody = Append(@, FormNode(emailOnFile, phoneOnFile,
                                                        summaryText, defaultContact)),
                       !.leadFormVisible = TRUE]

\* a gate that does not read routing.lead_capture
shouldCard_stageOnly(w, routing, profile) ==
    /\ profile.stage \in {"contact", "schedule"}
    /\ ~w.leadSubmitted

\* the four constants of handleRouting
shouldCard(w, routing, profile) ==
    \/ routing.lead_capture = "yes"
    \/ /\ profile.stage \in {"contact", "schedule"}
       /\ ~w.leadSubmitted

\* a gate that looks at the email only
contactOnFile_emailOnly(profile) == Truthy(profile.contact_email)

contactOnFile(profile) ==
    Truthy(profile.contact_email) \/ Truthy(profile.contact_phone)

\* a gate that forgets the pricing intent
highIntent_noPricing(routing) == routing.intent \in {"book", "buy"}

\* a gate that takes a search for high intent
highIntent_withSearch(routing) == routing.intent \in {"book", "buy", "pricing", "search"}

highIntent(routing) == routing.intent \in {"book", "buy", "pricing"}

hasProductOrDate(profile) ==
    Truthy(profile.product_name) \/ Truthy(profile.requested_date)

\* a gate that does not check leadSubmitted
handleRouting_resubmits(w, routing, profile) ==
    LET p == IF profile.present THEN updateProfilePanel(w, profile) ELSE w
    IN  IF ~routing.present THEN p
        ELSE IF /\ \/ shouldCard(p, routing, profile)
                   \/ highIntent(routing)
                   \/ hasProductOrDate(profile)
                /\ ~p.leadFormVisible
                /\ ~contactOnFile(profile)
             THEN renderLeadForm(p, routing, FALSE,
                                 IF profile.present THEN profile ELSE p.latestProfile)
             ELSE p

\* a gate that offers the form once: not again after it was dismissed
handleRouting_firesOnce(w, routing, profile) ==
    LET p == IF profile.present THEN updateProfilePanel(w, profile) ELSE w
    IN  IF ~routing.present THEN p
        ELSE IF /\ \/ shouldCard(p, routing, profile)
                   \/ highIntent(routing)
                   \/ hasProductOrDate(profile)
                /\ ~p.leadFormVisible
                /\ ~p.leadSubmitted
                /\ ~p.pendingLeadMeta.present
                /\ ~contactOnFile(profile)
             THEN renderLeadForm(p, routing, FALSE,
                                 IF profile.present THEN profile ELSE p.latestProfile)
             ELSE p

handleRouting(w, routing, profile) ==
    LET p == IF profile.present THEN updateProfilePanel(w, profile) ELSE w
    IN  IF ~routing.present THEN p
        ELSE IF /\ \/ shouldCard(p, routing, profile)
                   \/ highIntent(routing)
                   \/ hasProductOrDate(profile)
                /\ ~p.leadFormVisible
                /\ ~p.leadSubmitted
                /\ ~contactOnFile(profile)
             THEN renderLeadForm(p, routing, FALSE,
                                 IF profile.present THEN profile ELSE p.latestProfile)
             ELSE p

(***************************************************************************)
(* Transport Decoder.  Response text is a sequence of tokens: a newline,   *)
(* whitespace, the whole text of one JSON event, its first or second half, *)
(* or text that is no JSON.                                                *)
(***************************************************************************)
Tok(t, ev) == [t |-> t, ev |-> ev]

NL == Tok("nl", NoEvent)

WS == Tok("ws", NoEvent)

Junk == Tok("junk", NoEvent)

Whole(ev) == Tok("whole", ev)

\* the text of one JSON event cut in two: what precedes the cut, what follows it
Front(ev) == Tok("head", ev)

Back(ev) == Tok("tail", ev)

RECURSIVE SplitLines(_)
\* text.split('\n'): the segments between newlines, at least one
SplitLines(text) ==
    IF \A i \in 1..Len(text) : text[i] # NL THEN <<text>>
    ELSE LET k == CHOOSE i \in 1..Len(text) :
                      text[i] = NL /\ \A j \in 1..(i - 1) : text[j] # NL
         IN  <<SubSeq(text, 1, k - 1)>> \o SplitLines(SubSeq(text, k + 1, Len(text)))

RECURSIVE StripLeft(_)
StripLeft(line) ==
    IF line # <<>> /\ Head(line) = WS THEN StripLeft(Tail(line)) ELSE line

RECURSIVE StripRight(_)
StripRight(line) ==
    IF line # <<>> /\ line[Len(line)] = WS
    THEN StripRight(SubSeq(line, 1, Len(line) - 1))
    ELSE line

\* line.trim()
Trim(line) == StripRight(StripLeft(line))

\* JSON.parse(line): the event, or NoEvent when it throws
JSONparse(line) ==
    LET body == Trim(line)
    IN  IF Len(body) = 1 /\ body[1].t = "whole" THEN body[1].ev
        ELSE IF /\ Len(body) = 2
                /\ body[1].t = "head" /\ body[2].t = "tail"
                /\ body[1].ev = body[2].ev
             THEN body[1].ev
        ELSE NoEvent

\* a loop that gives up the lines of a read at the first that does not parse
Decoded_failFast(buffer, chunk) ==
    LET lines == SplitLines(buffer \o chunk)
        full == SubSeq(lines, 1, Len(lines) - 1)
        evs == [i \in 1..Len(full) |-> IF Trim(full[i]) = <<>> THEN NoEvent
                                       ELSE JSONparse(full[i])]
        bad == { i \in 1..Len(full) : Trim(full[i]) # <<>> /\ evs[i] = NoEvent }
        upto == IF bad = {} THEN Len(full)
                ELSE (CHOOSE i \in bad : \A j \in bad : i <= j) - 1
    IN  SelectSeq(SubSeq(evs, 1, upto), LAMBDA e : e # NoEvent)

\* the parsed events of the complete lines of buffer + chunk, blank and bad lines skipped
Decoded(buffer, chunk) ==
    LET lines == SplitLines(buffer \o chunk)
        full == SubSeq(lines, 1, Len(lines) - 1)
        evs == [i \in 1..Len(full) |-> IF Trim(full[i]) = <<>> THEN NoEvent
                                       ELSE JSONparse(full[i])]
    IN  SelectSeq(evs, LAMBDA e : e # NoEvent)

\* a loop that keeps no incomplete line
Remainder_dropsPartial(buffer, chunk) == <<>>

\* lines.pop(): the text after the last newline
Remainder(buffer, chunk) ==
    LET lines == SplitLines(buffer \o chunk) IN lines[Len(lines)]

(***************************************************************************)
(* sendMessage, up to its first await, and its continuations.              *)
(***************************************************************************)
TrimInput(text) == IF text = " " THEN "" ELSE text

\* a suspended call: the request body's conversation_id, the stream buffer, and, for
\* the record, the session it belongs to and the lead state when it was sent
Request(w) ==
    [phase |-> "fetch", conversation_id |-> w.conversationId, epoch |-> w.nextId - 1,
     buffer |-> <<>>, reads |-> 0,
     sent |-> [conversationId |-> w.conversationId, latestProfile |-> w.latestProfile,
               leadFormVisible |-> w.leadFormVisible, leadSubmitted |-> w.leadSubmitted,
               pendingLeadMeta |-> w.pendingLeadMeta]]

\* a send that does not look at chatEnded
sendMessage_ignoresEnded(w) ==
    IF ~Streaming(w) /\ ~Truthy(w.BUSINESS_ID) THEN appendMessage(w, "not-configured")
    ELSE IF TrimInput(w.chatInput) = "" THEN w
    ELSE LET a == appendMessage(w, "user")
             b == showTyping([a EXCEPT !.chatInput = ""], TRUE)
         IN  [b EXCEPT !.chats = Append(@, Request(w))]

\* a send that issues the request and leaves the text in the input
sendMessage_keepsInput(w) ==
    IF w.chatEnded THEN w
    ELSE IF ~Streaming(w) /\ ~Truthy(w.BUSINESS_ID) THEN appendMessage(w, "not-configured")
    ELSE IF TrimInput(w.chatInput) = "" THEN w
    ELSE LET a == appendMessage(w, "user")
             b == showTyping(a, TRUE)
         IN  [b EXCEPT !.chats = Append(@, Request(w))]

sendMessage(w) ==
    IF w.chatEnded THEN w
    ELSE IF ~Streaming(w) /\ ~Truthy(w.BUSINESS_ID) THEN appendMessage(w, "not-configured")
    ELSE IF TrimInput(w.chatInput) = "" THEN w
    ELSE LET a == appendMessage(w, "user")
             b == showTyping([a EXCEPT !.chatInput = ""], TRUE)
         IN  [b EXCEPT !.chats = Append(@, Request(w))]

\* a result branch that ends the session at once instead of setting the timer
handleResult_endsAtOnce(w, data) ==
    IF ~data.present THEN w
    ELSE LET a == saveConversation(w, data.conversation_id)
             b == appendMessage(a, "assistant")
             c == handleRouting(b, data.routing, data.profile)
         IN  IF data.lead_captured THEN endChatSession(c) ELSE c

\* the body of the result branch: the event's data drives the session
handleResult(w, data) ==
    IF ~data.present THEN w
    ELSE LET a == saveConversation(w, data.conversation_id)
             b == appendMessage(a, "assistant")
             c == handleRouting(b, data.routing, data.profile)
         IN  IF data.lead_captured
             THEN [c EXCEPT !.timers = Append(@, c.nextId - 1)]
             ELSE c

\* a loop that takes an error event for a failure of the request
handleEvent_errorApologises(w, event) ==
    IF event.type = "status"
    THEN IF w.typingBubble THEN [w EXCEPT !.typingText = "status"] ELSE w
    ELSE IF event.type = "result" THEN handleResult(w, event.data)
    ELSE IF event.type = "error" THEN showTyping(appendMessage(w, "apology"), FALSE)
    ELSE w

handleEvent(w, event) ==
    IF event.type = "status"
    THEN IF w.typingBubble THEN [w EXCEPT !.typingText = "status"] ELSE w
    ELSE IF event.type = "result" THEN handleResult(w, event.data)
    ELSE w

RECURSIVE handleEvents(_, _)
handleEvents(w, events) ==
    IF events = <<>> THEN w
    ELSE handleEvents(handleEvent(w, Head(events)), Tail(events))

\* a failure path that forgets the visitor's profile
failSend_dropsProfile(w) ==
    showTyping(appendMessage([w EXCEPT !.latestProfile = EmptyProfile], "apology"), FALSE)

\* a failure path without the finally block
failSend_keepsTyping(w) == appendMessage(w, "apology")

\* the catch and finally blocks
failSend(w) == showTyping(appendMessage(w, "apology"), FALSE)

RemoveAt(seq, i) == SubSeq(seq, 1, i - 1) \o SubSeq(seq, i + 1, Len(seq))

\* a reset that keeps the conversation id
resetChat_keepsId(w) ==
    LET a == [DetachForm(w) EXCEPT
                 !.chatBody = <<>>, !.chips = FALSE, !.typingAttached = FALSE,
                 !.leadFormVisible = FALSE, !.leadSubmitted = FALSE,
                 !.pendingLeadMeta = NoMeta, !.sessionRating = U, !.chatEnded = FALSE,
                 !.ratingHidden = TRUE, !.inputAreaHidden = FALSE,
                 !.inputDisabled = FALSE, !.sendDisabled = FALSE,
                 !.thankYouHidden = TRUE, !.ratingInputsDisabled = FALSE]
    IN  openChat(a)

resetChat(w) ==
    LET a == [DetachForm(w) EXCEPT
                 !.chatBody = <<>>, !.chips = FALSE, !.typingAttached = FALSE,
                 !.leadFormVisible = FALSE, !.leadSubmitted = FALSE,
                 !.pendingLeadMeta = NoMeta, !.sessionRating = U, !.chatEnded = FALSE,
                 !.ratingHidden = TRUE, !.inputAreaHidden = FALSE,
                 !.inputDisabled = FALSE, !.sendDisabled = FALSE,
                 !.thankYouHidden = TRUE, !.ratingInputsDisabled = FALSE]
        b == [saveConversation(a, ClientId(a.nextId)) EXCEPT !.nextId = @ + 1]
    IN  openChat(b)

(***************************************************************************)
(* State.                                                                  *)
(***************************************************************************)
VARIABLES
    build,                \* "stream" (production build) or "json"
    BUSINESS_ID,          \* window.RM_BUSINESS_ID, trimmed
    conversationId, leadFormVisible, leadSubmitted, pendingLeadMeta,
    latestProfile, sessionRating, chatEnded,
    chatBody,             \* the messages and lead forms in #chatBody, in document order
    chips,                \* the suggestion chips are in #chatBody
    typingAttached,       \* the typing bubble is in #chatBody
    chatInput,            \* chatInput.value
    inputDisabled,        \* chatInput.disabled
    sendDisabled,         \* sendButton.disabled
    inputAreaHidden,      \* #chatInputArea hidden
    ratingHidden,         \* #ratingComponent hidden
    thankYouHidden,       \* #ratingThankYou hidden
    ratingInputsDisabled, \* the rating radio inputs are disabled
    typingBubble,         \* the typing bubble was created (stream build)
    typingShown,          \* the typing indicator does not carry class hidden
    typingText,           \* the text of the typing bubble
    timers,               \* pending endChatSession timers, each with the session that set it
    leads,                \* /api/lead requests in flight
    chats,                \* sendMessage calls suspended at an await
    nextId,               \* number of the next id makeConversationId draws
    nSends,               \* sendMessage calls that got past the guards so far
    nSubmits,             \* handleLeadSubmit calls that got past validation so far
    last,                 \* the handler that ran last, the events it handled, and for
                          \* a failed send the session as it was when it was sent
    pre,                  \* the session state that handler started from
    wire,                 \* the text the traced stream has delivered so far
    handled               \* the events the decode loop has handled for it so far

widget == <<conversationId, leadFormVisible, leadSubmitted, pendingLeadMeta,
            latestProfile, sessionRating, chatEnded, chatBody, chips,
            typingAttached, chatInput,
            inputDisabled, sendDisabled, inputAreaHidden, ratingHidden,
            thankYouHidden, ratingInputsDisabled, typingBubble, typingShown,
            typingText, timers, leads, chats, nextId>>

trace == <<wire, handled>>

vars == <<build, BUSINESS_ID, widget, nSends, nSubmits, last, pre, trace>>

W ==
    [build |-> build, BUSINESS_ID |-> BUSINESS_ID,
     conversationId |-> conversationId, leadFormVisible |-> leadFormVisible,
     leadSubmitted |-> leadSubmitted, pendingLeadMeta |-> pendingLeadMeta,
     latestProfile |-> latestProfile, sessionRating |-> sessionRating,
     chatEnded |-> chatEnded, chatBody |-> chatBody, chips |-> chips,
     typingAttached |-> typingAttached, chatInput |-> chatInput,
     inputDisabled |-> inputDisabled, sendDisabled |-> sendDisabled,
     inputAreaHidden |-> inputAreaHidden, ratingHidden |-> ratingHidden,
     thankYouHidden |-> thankYouHidden, ratingInputsDisabled |-> ratingInputsDisabled,
     typingBubble |-> typingBubble, typingShown |-> typingShown,
     typingText |-> typingText, timers |-> timers, leads |-> leads,
     chats |-> chats, nextId |-> nextId]

\* the step that takes the widget to state w
Becomes(w) ==
    /\ conversationId' = w.conversationId
    /\ leadFormVisible' = w.leadFormVisible
    /\ leadSubmitted' = w.leadSubmitted
    /\ pendingLeadMeta' = w.pendingLeadMeta
    /\ latestProfile' = w.latestProfile
    /\ sessionRating' = w.sessionRating
    /\ chatEnded' = w.chatEnded
    /\ chatBody' = w.chatBody
    /\ chips' = w.chips
    /\ typingAttached' = w.typingAttached
    /\ chatInput' = w.chatInput
    /\ inputDisabled' = w.inputDisabled
    /\ sendDisabled' = w.sendDisabled
    /\ inputAreaHidden' = w.inputAreaHidden
    /\ ratingHidden' = w.ratingHidden
    /\ thankYouHidden' = w.thankYouHidden
    /\ ratingInputsDisabled' = w.ratingInputsDisabled
    /\ typingBubble' = w.typingBubble
    /\ typingShown' = w.typingShown
    /\ typingText' = w.typingText
    /\ timers' = w.timers
    /\ leads' = w.leads
    /\ chats' = w.chats
    /\ nextId' = w.nextId
    /\ UNCHANGED <<build, BUSINESS_ID>>

\* SessionState, the transcript and the requests outstanding
Snapshot ==
    [conversationId |-> conversationId, leadFormVisible |-> leadFormVisible,
     leadSubmitted |-> leadSubmitted, pendingLeadMeta |-> pendingLeadMeta,
     latestProfile |-> latestProfile, sessionRating |-> sessionRating,
     chatEnded |-> chatEnded, chatBody |-> chatBody, typingShown |-> typingShown,
     chats |-> Len(chats), leads |-> Len(leads), timers |-> Len(timers)]

\* no request: the step did not end a send in failure
NoSent ==
    [conversationId |-> UndefinedId, latestProfile |-> NoProfile,
     leadFormVisible |-> FALSE, leadSubmitted |-> FALSE, pendingLeadMeta |-> NoMeta]

\* no form was submitted in the step
NoFields == [name |-> U, email |-> U, phone |-> U]

\* no /api/lead request was concerned by the step
NoLead == [attached |-> FALSE, epoch |-> 0, conversation_id |-> UndefinedId]

Nothing ==
    [op |-> "init", events |-> <<>>, sent |-> NoSent, fields |-> NoFields,
     lead |-> NoLead, buffer |-> <<>>, epoch |-> 0]

Did(op, events) ==
    /\ last' = [Nothing EXCEPT !.op = op, !.events = events]
    /\ pre' = Snapshot
    /\ UNCHANGED trace

\* the send whose request req was outstanding has failed
DidFail(req) ==
    /\ last' = [Nothing EXCEPT !.op = "fail", !.sent = req.sent, !.epoch = req.epoch]
    /\ pre' = Snapshot
    /\ UNCHANGED trace

\* events of the response to request req were handled; the stream trace is left to
\* the specification
DidRead(req, events) ==
    /\ last' = [Nothing EXCEPT !.op = "read", !.events = events, !.epoch = req.epoch]
    /\ pre' = Snapshot

\* the stream of request req has ended with req.buffer undecoded
DidDone(req) ==
    /\ last' = [Nothing EXCEPT !.op = "done", !.buffer = req.buffer, !.epoch = req.epoch]
    /\ pre' = Snapshot
    /\ UNCHANGED trace

\* handleLeadSubmit ran on a form with these trimmed field values
DidSubmit(op, name, email, phone) ==
    /\ last' = [Nothing EXCEPT !.op = op,
                               !.fields = [name |-> name, email |-> email, phone |-> phone]]
    /\ pre' = Snapshot
    /\ UNCHANGED trace

\* the timer set in session epoch has fired
DidTimer(epoch) ==
    /\ last' = [Nothing EXCEPT !.op = "endChatSession", !.epoch = epoch]
    /\ pre' = Snapshot
    /\ UNCHANGED trace

\* the /api/lead request lead was answered
DidLead(op, lead) ==
    /\ last' = [Nothing EXCEPT !.op = op, !.lead = lead]
    /\ pre' = Snapshot
    /\ UNCHANGED trace

Builds ==
    { [build |-> "stream", BUSINESS_ID |-> "default"],
      [build |-> "json", BUSINESS_ID |-> "default"],
      [build |-> "json", BUSINESS_ID |-> ""] }

Init ==
    /\ \E b \in Builds : build = b.build /\ BUSINESS_ID = b.BUSINESS_ID
    /\ conversationId = ClientId(1)
    /\ leadFormVisible = FALSE
    /\ leadSubmitted = FALSE
    /\ pendingLeadMeta = NoMeta
    /\ latestProfile = EmptyProfile
    /\ sessionRating = U
    /\ chatEnded = FALSE
    /\ chatBody = <<>>
    /\ chips = FALSE
    /\ typingAttached = FALSE
    /\ chatInput = ""
    /\ inputDisabled = FALSE
    /\ sendDisabled = FALSE
    /\ inputAreaHidden = FALSE
    /\ ratingHidden = TRUE
    /\ thankYouHidden = TRUE
    /\ ratingInputsDisabled = FALSE
    /\ typingBubble = FALSE
    /\ typingShown = FALSE
    /\ typingText = "Thinking..."
    /\ timers = <<>>
    /\ leads = <<>>
    /\ chats = <<>>
    /\ nextId = 2
    /\ nSends = 0
    /\ nSubmits = 0
    /\ last = Nothing
    /\ pre = Snapshot
    /\ wire = <<>>
    /\ handled = <<>>

(***************************************************************************)
(* Visitor actions.                                                        *)
(***************************************************************************)
OpenChat ==
    /\ Becomes(openChat(W))
    /\ Did("openChat", <<>>)
    /\ UNCHANGED <<nSends, nSubmits>>

InputTexts == {" ", "hi"}

TypeInput(text) ==
    /\ ~inputDisabled /\ ~inputAreaHidden
    /\ chatInput # text
    /\ Becomes([W EXCEPT !.chatInput = text])
    /\ Did("input", <<>>)
    /\ UNCHANGED <<nSends, nSubmits>>

\* the send button or the Enter key
UserSend ==
    /\ ~inputAreaHidden
    /\ ~sendDisabled \/ ~inputDisabled
    /\ LET w == sendMessage(W)
       IN  /\ Becomes(w)
           /\ nSends' = nSends + (IF w = W THEN 0 ELSE 1)
    /\ Did("sendMessage", <<>>)
    /\ UNCHANGED nSubmits

\* a suggestion chip: fills the input, sends, removes the chips
ClickChip ==
    /\ chips
    /\ LET v == [W EXCEPT !.chatInput = "Find a home"]
           w == sendMessage(v)
       IN  /\ Becomes([w EXCEPT !.chips = FALSE])
           /\ nSends' = nSends + (IF w = v THEN 0 ELSE 1)
    /\ Did("sendMessage", <<>>)
    /\ UNCHANGED nSubmits

SpecialistRouting ==
    MkRouting(U, "book", "To hold a consultation slot", "soon")

ClickSpecialist ==
    /\ LET o == openChat(W)
       IN  Becomes(renderLeadForm(o, SpecialistRouting, TRUE, o.latestProfile))
    /\ Did("specialist", <<>>)
    /\ UNCHANGED <<nSends, nSubmits>>

DismissForm ==
    /\ Has(chatBody, "lead-form")
    /\ Becomes([DetachForm(W) EXCEPT !.leadFormVisible = FALSE])
    /\ Did("dismiss", <<>>)
    /\ UNCHANGED <<nSends, nSubmits>>

RatingValues == {"1", "4.5"}

Rate(value) ==
    /\ ~ratingHidden /\ ~ratingInputsDisabled
    /\ Becomes(handleRating(W, value))
    /\ Did("handleRating", <<>>)
    /\ UNCHANGED <<nSends, nSubmits>>

Reset ==
    /\ Becomes(resetChat(W))
    /\ Did("resetChat", <<>>)
    /\ UNCHANGED <<nSends, nSubmits>>

(***************************************************************************)
(* The delayed transition to Ended.                                        *)
(***************************************************************************)
TimerFire ==
    /\ timers # <<>>
    /\ Becomes(endChatSession([W EXCEPT !.timers = Tail(@)]))
    /\ DidTimer(Head(timers))
    /\ UNCHANGED <<nSends, nSubmits>>

(***************************************************************************)
(* Continuations of sendMessage.                                           *)
(***************************************************************************)
\* fetch rejects, or resolves with a status that is not ok
FetchFail(i) ==
    /\ chats[i].phase = "fetch"
    /\ Becomes(failSend([W EXCEPT !.chats = RemoveAt(@, i)]))
    /\ DidFail(chats[i])
    /\ UNCHANGED <<nSends, nSubmits>>

FetchOk(i) ==
    /\ chats[i].phase = "fetch"
    /\ Becomes([W EXCEPT !.chats[i].phase = IF Streaming(W) THEN "read" ELSE "json"])
    /\ Did("response", <<>>)
    /\ UNCHANGED <<nSends, nSubmits>>

\* reader.read() resolves with a chunk of text
ReadChunk(i, chunk) ==
    /\ chats[i].phase = "read"
    /\ LET events == Decoded(chats[i].buffer, chunk)
           w == [W EXCEPT !.chats[i].buffer = Remainder(chats[i].buffer, chunk),
                          !.chats[i].reads = @ + 1]
       IN  /\ Becomes(handleEvents(w, events))
           /\ DidRead(chats[i], events)
    /\ UNCHANGED <<nSends, nSubmits>>

\* an end of stream that decodes what is left in the buffer
ReadDone_flushes(i) ==
    /\ chats[i].phase = "read"
    /\ LET w == [W EXCEPT !.chats = RemoveAt(@, i)]
           left == Decoded(chats[i].buffer, <<NL>>)
       IN  Becomes(showTyping(handleEvents(w, left), FALSE))
    /\ DidDone(chats[i])
    /\ UNCHANGED <<nSends, nSubmits>>

\* reader.read() resolves with done
ReadDone(i) ==
    /\ chats[i].phase = "read"
    /\ Becomes(showTyping([W EXCEPT !.chats = RemoveAt(@, i)], FALSE))
    /\ DidDone(chats[i])
    /\ UNCHANGED <<nSends, nSubmits>>

\* reader.read() rejects: the stream is aborted
ReadFail(i) ==
    /\ chats[i].phase = "read"
    /\ Becomes(failSend([W EXCEPT !.chats = RemoveAt(@, i)]))
    /\ DidFail(chats[i])
    /\ UNCHANGED <<nSends, nSubmits>>

\* response.json() resolves
JsonOk(i, data) ==
    /\ chats[i].phase = "json"
    /\ data.present
    /\ Becomes(showTyping(handleResult([W EXCEPT !.chats = RemoveAt(@, i)], data), FALSE))
    /\ DidRead(chats[i], <<MkEvent("result", data)>>)
    /\ UNCHANGED trace
    /\ UNCHANGED <<nSends, nSubmits>>

\* response.json() rejects
JsonFail(i) ==
    /\ chats[i].phase = "json"
    /\ Becomes(failSend([W EXCEPT !.chats = RemoveAt(@, i)]))
    /\ DidFail(chats[i])
    /\ UNCHANGED <<nSends, nSubmits>>

(***************************************************************************)
(* handleLeadSubmit and its continuations.                                 *)
(***************************************************************************)
TheForm == chatBody[CHOOSE i \in 1..Len(chatBody) : chatBody[i].kind = "lead-form"]

\* a handler that asks for a name only
SubmitLead_nameOnly(name, email, phone) ==
    /\ Has(chatBody, "lead-form")
    /\ LET em == IF Truthy(TheForm.email) THEN TheForm.email ELSE email
           ph == IF Truthy(TheForm.phone) THEN TheForm.phone ELSE phone
       IN  IF ~Truthy(BUSINESS_ID)
           THEN /\ Becomes(appendMessage(W, "not-configured"))
                /\ DidSubmit("submit-unconfigured", name, em, ph)
                /\ nSubmits' = nSubmits + 1
           ELSE IF name = ""
           THEN /\ Becomes(W)
                /\ DidSubmit("submit-invalid", name, em, ph)
                /\ UNCHANGED nSubmits
           ELSE /\ Becomes([W EXCEPT !.leads = Append(@,
                               [attached |-> TRUE, epoch |-> nextId - 1,
                                conversation_id |-> conversationId])])
                /\ DidSubmit("submit", name, em, ph)
                /\ nSubmits' = nSubmits + 1
    /\ UNCHANGED nSends

\* name, email and phone are the trimmed values of the visitor's fields
SubmitLead(name, email, phone) ==
    /\ Has(chatBody, "lead-form")
    /\ LET em == IF Truthy(TheForm.email) THEN TheForm.email ELSE email
           ph == IF Truthy(TheForm.phone) THEN TheForm.phone ELSE phone
       IN  IF ~Truthy(BUSINESS_ID)
           THEN /\ Becomes(appendMessage(W, "not-configured"))
                /\ DidSubmit("submit-unconfigured", name, em, ph)
                /\ nSubmits' = nSubmits + 1
           ELSE IF name = "" \/ (em = "" /\ ph = "")
           THEN /\ Becomes(W)
                /\ DidSubmit("submit-invalid", name, em, ph)
                /\ UNCHANGED nSubmits
           ELSE /\ Becomes([W EXCEPT !.leads = Append(@,
                               [attached |-> TRUE, epoch |-> nextId - 1,
                                conversation_id |-> conversationId])])
                /\ DidSubmit("submit", name, em, ph)
                /\ nSubmits' = nSubmits + 1
    /\ UNCHANGED nSends

\* an acceptance that leaves the submitted form in place
LeadOk_keepsForm(i) ==
    /\ LET b == [W EXCEPT !.leads = RemoveAt(@, i), !.leadFormVisible = FALSE,
                          !.leadSubmitted = TRUE, !.pendingLeadMeta = NoMeta]
       IN  Becomes(appendMessage(b, "thanks"))
    /\ DidLead("lead-ok", leads[i])
    /\ UNCHANGED <<nSends, nSubmits>>

LeadOk(i) ==
    /\ LET a == IF leads[i].attached THEN DetachForm(W) ELSE W
           b == [a EXCEPT !.leads = RemoveAt(@, i), !.leadFormVisible = FALSE,
                          !.leadSubmitted = TRUE, !.pendingLeadMeta = NoMeta]
       IN  Becomes(appendMessage(b, "thanks"))
    /\ DidLead("lead-ok", leads[i])
    /\ UNCHANGED <<nSends, nSubmits>>

\* a rejection that sends the request again
LeadFail_retries(i) ==
    /\ Becomes([W EXCEPT !.leads = Append(RemoveAt(@, i), leads[i])])
    /\ DidLead("lead-fail", leads[i])
    /\ UNCHANGED <<nSends, nSubmits>>

LeadFail(i) ==
    /\ Becomes([W EXCEPT !.leads = RemoveAt(@, i)])
    /\ DidLead("lead-fail", leads[i])
    /\ UNCHANGED <<nSends, nSubmits>>

(***************************************************************************)
(* What the backend may send in answer to a request.                       *)
(***************************************************************************)
\* the backend echoes the id it was sent or renames the conversation
ReplyIds(req) == {req.conversation_id, ServerId}

\* a result whose data names no conversation and carries nothing else
Unidentified == MkEvent("result", MkData(UndefinedId, NoRouting, NoProfile, FALSE))

Results(req, routings, profiles) ==
    { MkEvent("result", MkData(cid, rt, pf, lc)) :
        cid \in ReplyIds(req), rt \in routings, pf \in profiles, lc \in BOOLEAN }
    \cup {Unidentified}

Events(req, routings, profiles) ==
    Results(req, routings, profiles) \cup
    { MkEvent("status", NoData), MkEvent("error", NoData), MkEvent("result", NoData) }

\* one event to a line, one line to a read; or a line that is no JSON
Chunks(req, routings, profiles) ==
    { <<Whole(e), NL>> : e \in Events(req, routings, profiles) } \cup
    { <<Junk, NL>> }

FormInputs == {"", "x"}

Next ==
    \/ OpenChat
    \/ \E text \in InputTexts : TypeInput(text)
    \/ nSends < MaxSends /\ Len(chats) < MaxInFlight /\ UserSend
    \/ (chatEnded \/ (nSends < MaxSends /\ Len(chats) < MaxInFlight)) /\ ClickChip
    \/ DismissForm
    \/ \E value \in RatingValues : Rate(value)
    \/ nextId < MaxResets + 2 /\ Reset
    \/ TimerFire
    \/ \E i \in DOMAIN chats : FetchFail(i)
    \/ \E i \in DOMAIN chats : FetchOk(i)
    \/ \E i \in DOMAIN chats :
          /\ chats[i].phase = "read" /\ chats[i].reads < MaxReads
          /\ \E chunk \in Chunks(chats[i], Routings, Profiles) : ReadChunk(i, chunk)
          /\ UNCHANGED trace
    \/ \E i \in DOMAIN chats : ReadDone(i)
    \/ \E i \in DOMAIN chats : ReadFail(i)
    \/ \E i \in DOMAIN chats :
          /\ chats[i].phase = "json"
          /\ \E e \in Results(chats[i], Routings, Profiles) : JsonOk(i, e.data)
    \/ \E i \in DOMAIN chats : JsonFail(i)
    \/ /\ nSubmits < MaxSubmits /\ Len(leads) < MaxLeads
       /\ \E n, e, p \in FormInputs : SubmitLead(n, e, p)
    \/ \E i \in DOMAIN leads : LeadOk(i)
    \/ \E i \in DOMAIN leads : LeadFail(i)

Spec == Init /\ [][Next]_vars

(***************************************************************************)
(* The Lead Gate specification: one session, with every combination of the *)
(* routing and profile fields the gate reads, the specialist button, form  *)
(* dismissal and lead submission.                                          *)
(***************************************************************************)
GateResults(req) ==
    { MkEvent("result", MkData(req.conversation_id, rt, pf, FALSE)) :
        rt \in GateRoutings, pf \in GateProfiles }

NextGate ==
    \/ TypeInput("hi")
    \/ nSends < MaxSends /\ Len(chats) < MaxInFlight /\ UserSend
    \/ ClickSpecialist
    \/ DismissForm
    \/ \E i \in DOMAIN chats : FetchOk(i)
    \/ \E i \in DOMAIN chats :
          /\ chats[i].phase = "read" /\ chats[i].reads < MaxGateReads
          /\ \E e \in GateResults(chats[i]) : ReadChunk(i, <<Whole(e), NL>>)
          /\ UNCHANGED trace
    \/ \E i \in DOMAIN chats : ReadDone(i)
    \/ \E i \in DOMAIN chats :
          /\ chats[i].phase = "json"
          /\ \E e \in GateResults(chats[i]) : JsonOk(i, e.data)
    \/ /\ nSubmits < MaxSubmits /\ Len(leads) < MaxLeads
       /\ \E n, e, p \in FormInputs : SubmitLead(n, e, p)
    \/ \E i \in DOMAIN leads : LeadOk(i)

SpecGate == Init /\ [][NextGate]_vars

(***************************************************************************)
(* The concurrency specification: two sends by button, Enter key or chip,  *)
(* with nothing but the code's own guards between them, every way a        *)
(* request can end, and Reset.                                             *)
(***************************************************************************)
\* a status, or a result that echoes the id and carries no signal
ConcEvents(req) ==
    { MkEvent("status", NoData),
      MkEvent("result", MkData(req.conversation_id, NoRouting, NoProfile, FALSE)) }

NextSends ==
    \/ OpenChat
    \/ TypeInput("hi")
    \/ nSends < MaxConcSends /\ Len(chats) < MaxConcInFlight /\ UserSend
    \/ nSends < MaxConcSends /\ Len(chats) < MaxConcInFlight /\ ClickChip
    \/ nextId < MaxResets + 2 /\ Reset
    \/ \E i \in DOMAIN chats : FetchFail(i)
    \/ \E i \in DOMAIN chats : FetchOk(i)
    \/ \E i \in DOMAIN chats :
          /\ chats[i].phase = "read" /\ chats[i].reads < MaxConcReads
          /\ \E e \in ConcEvents(chats[i]) : ReadChunk(i, <<Whole(e), NL>>)
          /\ UNCHANGED trace
    \/ \E i \in DOMAIN chats : ReadDone(i)
    \/ \E i \in DOMAIN chats : ReadFail(i)
    \/ \E i \in DOMAIN chats :
          /\ chats[i].phase = "json"
          /\ \E e \in ConcEvents(chats[i]) : e.data.present /\ JsonOk(i, e.data)
    \/ \E i \in DOMAIN chats : JsonFail(i)

SpecSends == Init /\ [][NextSends]_vars

\* the transport settles a pending await of some request: fetch resolves or rejects,
\* the stream ends or aborts, the JSON body is parsed or not
Settles ==
    \E i \in DOMAIN chats :
        \/ FetchOk(i) \/ FetchFail(i)
        \/ ReadDone(i) \/ ReadFail(i)
        \/ JsonFail(i)
        \/ \E e \in ConcEvents(chats[i]) : e.data.present /\ JsonOk(i, e.data)

\* the concurrency specification with a transport that leaves no await pending
\* for ever
SpecSendsFair == SpecSends /\ WF_vars(Settles)

(***************************************************************************)
(* The lead specification: the form opened by the specialist button, with  *)
(* and without a contact on file, dismissed, submitted twice over, each    *)
(* submission accepted or rejected, and Reset.                             *)
(***************************************************************************)
\* a result that only stores a profile: none, or one with an email on file
LeadResults(req) ==
    { MkEvent("result", MkData(req.conversation_id, NoRouting, pf, FALSE)) :
        pf \in {NoProfile, MkProfile(U, "a@b.c", U, U, U, U)} }

NextLead ==
    \/ TypeInput("hi")
    \/ nSends < MaxSends /\ Len(chats) < MaxInFlight /\ UserSend
    \/ \E i \in DOMAIN chats : FetchOk(i)
    \/ \E i \in DOMAIN chats :
          /\ chats[i].phase = "read" /\ chats[i].reads < MaxGateReads
          /\ \E e \in LeadResults(chats[i]) : ReadChunk(i, <<Whole(e), NL>>)
          /\ UNCHANGED trace
    \/ \E i \in DOMAIN chats : ReadDone(i)
    \/ \E i \in DOMAIN chats :
          /\ chats[i].phase = "json"
          /\ \E e \in LeadResults(chats[i]) : JsonOk(i, e.data)
    \/ ClickSpecialist
    \/ DismissForm
    \/ /\ nSubmits < MaxLeadSubmits /\ Len(leads) < MaxLeadsInFlight
       /\ \E n, e, p \in FormInputs : SubmitLead(n, e, p)
    \/ \E i \in DOMAIN leads : LeadOk(i)
    \/ \E i \in DOMAIN leads : LeadFail(i)
    \/ nextId < MaxResets + 2 /\ Reset

SpecLead == Init /\ [][NextLead]_vars

(***************************************************************************)
(* The decoder specification: one response stream whose text is any        *)
(* sequence of at most MaxWire tokens, delivered by reads that cut it      *)
(* anywhere; wire and handled record the text delivered and the events the *)
(* loop has handled.                                                       *)
(***************************************************************************)
\* a newline, whitespace, text that is no JSON, a status event in one piece, and a
\* result event cut in two
Alphabet(req) ==
    LET result == MkEvent("result", MkData(req.conversation_id, NoRouting, NoProfile, FALSE))
    IN  { NL, WS, Junk, Whole(MkEvent("status", NoData)), Front(result), Back(result) }

\* the texts of 1 to n tokens
Texts(req, n) == UNION { [1..k -> Alphabet(req)] : k \in 1..n }

\* a read of the traced stream
ReadTraced(i, chunk) ==
    /\ ReadChunk(i, chunk)
    /\ wire' = wire \o chunk
    /\ handled' = handled \o Decoded(chats[i].buffer, chunk)

\* one message is sent: wire and handled follow the stream that answers it
NextDecode ==
    \/ TypeInput("hi")
    \/ nSends = 0 /\ UserSend
    \/ \E i \in DOMAIN chats : FetchOk(i)
    \/ \E i \in DOMAIN chats :
          /\ chats[i].phase = "read" /\ Len(wire) < MaxWire
          /\ \E chunk \in Texts(chats[i], MaxWire - Len(wire)) : ReadTraced(i, chunk)
    \/ \E i \in DOMAIN chats : ReadDone(i)

SpecDecode == Init /\ [][NextDecode]_vars

(***************************************************************************)
(* The error-event specification: one response stream of at most           *)
(* MaxErrLines lines, one line to a read, each an error event, a status    *)
(* event or a result event that renames the conversation and opens the     *)
(* lead gate.                                                              *)
(***************************************************************************)
ErrEvents ==
    { MkEvent("error", NoData), MkEvent("status", NoData),
      MkEvent("result", MkData(ServerId, MkRouting("yes", U, U, U),
                               MkProfile("browse", U, U, U, U, U), FALSE)) }

NextError ==
    \/ TypeInput("hi")
    \/ nSends = 0 /\ UserSend
    \/ \E i \in DOMAIN chats : FetchOk(i)
    \/ \E i \in DOMAIN chats :
          /\ chats[i].phase = "read" /\ chats[i].reads < MaxErrLines
          /\ \E e \in ErrEvents : ReadTraced(i, <<Whole(e), NL>>)
    \/ DismissForm
    \/ \E i \in DOMAIN chats : ReadDone(i)

SpecError == Init /\ [][NextError]_vars

(***************************************************************************)
(* The lead-form specification: the form rendered by the gate and by the   *)
(* specialist button, for routings with and without a summary and profiles *)
(* with and without a summary, an email and a phone, and its submission.   *)
(***************************************************************************)
FormRoutings ==
    { NoRouting, MkRouting("yes", U, U, U), MkRouting("yes", U, "rsum", U) }

FormProfiles ==
    { NoProfile,
      MkProfile(U, U, U, U, U, U),
      MkProfile(U, U, U, U, U, "psum"),
      MkProfile(U, "a@b.c", U, U, U, U),
      MkProfile(U, "", "555", U, U, "psum"),
      MkProfile(U, "a@b.c", "555", U, U, U) }

FormResults(req) ==
    { MkEvent("result", MkData(req.conversation_id, rt, pf, FALSE)) :
        rt \in FormRoutings, pf \in FormProfiles }

NextForm ==
    \/ TypeInput("hi")
    \/ nSends = 0 /\ UserSend
    \/ \E i \in DOMAIN chats : FetchOk(i)
    \/ \E i \in DOMAIN chats :
          /\ chats[i].phase = "read" /\ chats[i].reads < MaxFormReads
          /\ \E e \in FormResults(chats[i]) : ReadChunk(i, <<Whole(e), NL>>)
          /\ UNCHANGED trace
    \/ \E i \in DOMAIN chats : ReadDone(i)
    \/ \E i \in DOMAIN chats :
          /\ chats[i].phase = "json"
          /\ \E e \in FormResults(chats[i]) : JsonOk(i, e.data)
    \/ ClickSpecialist
    \/ DismissForm
    \/ /\ nSubmits < MaxSubmits /\ Len(leads) < MaxLeads
       /\ \E n, e, p \in FormInputs : SubmitLead(n, e, p)

SpecForm == Init /\ [][NextForm]_vars


(***************************************************************************)
(* Properties.  last names the handler that produced the current state and *)
(* pre the session state it started from.                                  *)
(***************************************************************************)
\* the step just taken handled exactly one event, a result that carries data
HandledResult ==
    /\ last.op = "read"
    /\ Len(last.events) = 1
    /\ last.events[1].type = "result"
    /\ last.events[1].data.present

LastData == last.events[1].data

\* after a result was handled: the gate rendered the lead form
Fired ==
    /\ ~pre.leadFormVisible /\ leadFormVisible
    /\ pendingLeadMeta.present
    /\ Len(chatBody) = Len(pre.chatBody) + 2 - Count(pre.chatBody, {"lead-form"})
    /\ chatBody[Len(chatBody)].kind = "lead-form"
    /\ chatBody[Len(chatBody) - 1] = Node("assistant")
    /\ Count(chatBody, {"lead-form"}) = 1

\* after a result was handled: the reply was appended and the gate did nothing
NotFired ==
    /\ leadFormVisible = pre.leadFormVisible
    /\ pendingLeadMeta = pre.pendingLeadMeta
    /\ chatBody = Append(pre.chatBody, Node("assistant"))

FireCondition(routing, profile) ==
    \/ profile.stage \in {"contact", "schedule"}
    \/ routing.intent \in {"book", "buy", "pricing"}
    \/ Truthy(profile.product_name)
    \/ Truthy(profile.requested_date)

HasContact(profile) == Truthy(profile.contact_email) \/ Truthy(profile.contact_phone)

\* C1: a result event whose profile carries a contact_email or a contact_phone never
\* makes handleRouting show the lead form, whatever its routing and the other
\* profile fields: the reply is appended, leadFormVisible and pendingLeadMeta stay.
C1_ContactOnFileSuppressesGate ==
    HandledResult /\ HasContact(LastData.profile) => NotFired

\* a result with lead_capture = "yes" and a phone on file arrived while no form was
\* visible and no lead was submitted: only the contact on file kept the gate shut
C1_Witness ==
    /\ HandledResult
    /\ LastData.routing.lead_capture = "yes"
    /\ Truthy(LastData.profile.contact_phone) /\ ~Truthy(LastData.profile.contact_email)
    /\ ~pre.leadFormVisible /\ ~pre.leadSubmitted
    /\ ~leadFormVisible

\* C2: once leadSubmitted is true, no later result event makes the gate fire,
\* whatever its routing and profile, and leadSubmitted stays true.
C2_NoGateAfterSubmission ==
    HandledResult /\ pre.leadSubmitted => NotFired /\ leadSubmitted

\* a result with lead_capture = "yes" and no contact on file arrived after a lead
\* was accepted, with no form visible
C2_Witness ==
    /\ HandledResult
    /\ LastData.routing.lead_capture = "yes"
    /\ ~HasContact(LastData.profile)
    /\ pre.leadSubmitted /\ ~pre.leadFormVisible
    /\ ~leadFormVisible

\* C3: a result event with routing.lead_capture = "yes", no contact in its profile
\* and no accepted lead submission leaves the lead form shown and pendingLeadMeta
\* set; when no form was visible before, this event rendered it.
C3_LeadCaptureYesFires ==
    /\ HandledResult
    /\ LastData.routing.lead_capture = "yes"
    /\ ~HasContact(LastData.profile)
    /\ ~pre.leadSubmitted
    => /\ leadFormVisible /\ pendingLeadMeta.present
       /\ Has(chatBody, "lead-form")
       /\ ~pre.leadFormVisible => Fired

\* the gate fired on lead_capture = "yes" alone: no other fire condition held
C3_Witness ==
    /\ HandledResult
    /\ LastData.routing.lead_capture = "yes"
    /\ ~FireCondition(LastData.routing, LastData.profile)
    /\ ~HasContact(LastData.profile)
    /\ ~pre.leadFormVisible /\ ~pre.leadSubmitted
    /\ Fired

\* C4 as stated: whether or not the event carries a routing signal, any one of the
\* conditions stage contact/schedule, intent book/buy/pricing, product_name,
\* requested_date shows the form when nothing suppresses it.
C4_AnyFireConditionFires ==
    /\ HandledResult
    /\ FireCondition(LastData.routing, LastData.profile)
    /\ ~pre.leadFormVisible /\ ~pre.leadSubmitted
    /\ ~HasContact(LastData.profile)
    => Fired

\* C4 amended: the same, for result events that carry a routing signal; a result
\* event without one never shows the form.
C4_AnyFireConditionFiresGivenRouting ==
    HandledResult =>
        /\ /\ LastData.routing.present
           /\ FireCondition(LastData.routing, LastData.profile)
           /\ ~pre.leadFormVisible /\ ~pre.leadSubmitted
           /\ ~HasContact(LastData.profile)
           => Fired
        /\ ~LastData.routing.present => NotFired

\* the gate fired on a requested_date alone, the routing signal naming no intent
C4_Witness ==
    /\ HandledResult
    /\ LastData.routing.present
    /\ LastData.routing.intent = U /\ LastData.routing.lead_capture = "no"
    /\ LastData.profile.stage = U
    /\ Truthy(LastData.profile.requested_date) /\ ~Truthy(LastData.profile.product_name)
    /\ Fired

\* the step just taken handled exactly one event, a status
HandledStatus ==
    /\ last.op = "read"
    /\ Len(last.events) = 1
    /\ last.events[1].type = "status"

\* the session fields the lead gate and the result branch write
LeadState ==
    [leadFormVisible |-> leadFormVisible, leadSubmitted |-> leadSubmitted,
     pendingLeadMeta |-> pendingLeadMeta]

PreLeadState ==
    [leadFormVisible |-> pre.leadFormVisible, leadSubmitted |-> pre.leadSubmitted,
     pendingLeadMeta |-> pre.pendingLeadMeta]

\* C5: a status event changes neither the transcript nor the lead state, and a
\* result event whose routing has lead_capture other than "yes" and an intent outside
\* book/buy/pricing, and whose profile has no stage contact/schedule, no product_name
\* and no requested_date, adds exactly one assistant reply and no lead form and
\* leaves leadFormVisible as it was (false when it was false).
C5_NoFireConditionNoGate ==
    /\ HandledStatus => chatBody = pre.chatBody /\ LeadState = PreLeadState
    /\ /\ HandledResult
       /\ LastData.routing.lead_capture # "yes"
       /\ ~FireCondition(LastData.routing, LastData.profile)
       => NotFired /\ LeadState = PreLeadState

\* the stream of the scenario: a status, then a result with intent "search" and a
\* profile in stage "browse"; the transcript is the user message and the reply
C5_Witness ==
    /\ HandledResult
    /\ typingText = "status"
    /\ LastData.routing.intent = "search" /\ LastData.routing.lead_capture = "no"
    /\ LastData.profile.stage = "browse"
    /\ chatBody = <<Node("user"), Node("assistant")>>
    /\ ~leadFormVisible

Affordances ==
    [inputDisabled |-> inputDisabled, sendDisabled |-> sendDisabled,
     inputAreaHidden |-> inputAreaHidden, ratingHidden |-> ratingHidden]

EndedAffordances ==
    [inputDisabled |-> TRUE, sendDisabled |-> TRUE,
     inputAreaHidden |-> TRUE, ratingHidden |-> FALSE]

\* C6: a result event with lead_captured appends the reply and sets one timer and
\* does not touch chatEnded; the timer's callback leaves chatEnded true, the input
\* and the send button disabled, the input area hidden and the rating shown; and
\* chatEnded never becomes true in any other step.
C6_LeadCapturedEndsAfterTimer ==
    /\ HandledResult /\ LastData.lead_captured
       => /\ chatEnded = pre.chatEnded
          /\ Len(timers) = pre.timers + 1
          /\ Count(chatBody, {"assistant"}) = Count(pre.chatBody, {"assistant"}) + 1
    /\ last.op = "endChatSession"
       => /\ chatEnded /\ Affordances = EndedAffordances
          /\ Len(timers) = pre.timers - 1
          /\ chatBody = pre.chatBody
    /\ chatEnded /\ ~pre.chatEnded => last.op = "endChatSession"
    /\ timers # <<>> /\ Len(timers) > pre.timers => HandledResult /\ LastData.lead_captured

\* the timer set by a lead_captured result has fired in the session that set it:
\* the reply is in the transcript and the session has just become Ended
C6_Witness ==
    /\ last.op = "endChatSession"
    /\ ~pre.chatEnded /\ chatEnded
    /\ nextId = 2
    /\ Has(chatBody, "assistant")
    /\ timers = <<>>

SessionState ==
    [conversationId |-> conversationId, leadFormVisible |-> leadFormVisible,
     leadSubmitted |-> leadSubmitted, pendingLeadMeta |-> pendingLeadMeta,
     latestProfile |-> latestProfile, sessionRating |-> sessionRating,
     chatEnded |-> chatEnded]

PreSessionState ==
    [conversationId |-> pre.conversationId, leadFormVisible |-> pre.leadFormVisible,
     leadSubmitted |-> pre.leadSubmitted, pendingLeadMeta |-> pre.pendingLeadMeta,
     latestProfile |-> pre.latestProfile, sessionRating |-> pre.sessionRating,
     chatEnded |-> pre.chatEnded]

\* C7: in every state with chatEnded true, sendMessage returns the state it was
\* given whatever the text of the input, and a click on a suggestion chip, the one
\* way left to call it, adds no transcript entry, sends no request and changes no
\* SessionState field; endChatSession changes nothing but the text of the input,
\* which it clears, and a second run of it leaves SessionState, the transcript and
\* the affordances as they were.
C7_SendIsNoOpOnceEnded ==
    /\ chatEnded =>
          /\ \A text \in InputTexts \cup {"", "Find a home"} :
                LET w == [W EXCEPT !.chatInput = text] IN sendMessage(w) = w
          /\ endChatSession(W) = [W EXCEPT !.chatInput = ""]
          /\ Affordances = EndedAffordances
    /\ pre.chatEnded /\ last.op \in {"sendMessage", "endChatSession"}
       => /\ chatBody = pre.chatBody
          /\ Len(chats) = pre.chats
          /\ SessionState = PreSessionState

\* sendMessage was called in an Ended session, by a click on a chip drawn by a reset
\* before the first session's timer fired
C7_Witness ==
    /\ last.op = "sendMessage"
    /\ pre.chatEnded /\ chatEnded
    /\ chatInput = "Find a home"

\* endChatSession ran in a session that was Ended already
C7_WitnessSecondEnd ==
    /\ last.op = "endChatSession"
    /\ pre.chatEnded /\ chatEnded

\* C8: right after resetChat ran in an Ended session, chatEnded is false, the input
\* and the send button are enabled, the input area is visible, the rating is hidden,
\* the transcript is empty, and conversationId is not the id the session had before.
C8_ResetFromEndedRestoresIdle ==
    last.op = "resetChat" /\ pre.chatEnded
    => /\ ~chatEnded
       /\ ~inputDisabled /\ ~sendDisabled /\ ~inputAreaHidden /\ ratingHidden
       /\ chatBody = <<>>
       /\ conversationId # pre.conversationId
       /\ \A i \in DOMAIN chats : conversationId # chats[i].conversation_id

\* resetChat ran in an Ended session whose transcript held the exchange
C8_Witness ==
    /\ last.op = "resetChat"
    /\ pre.chatEnded
    /\ Len(pre.chatBody) >= 2
    /\ ~chatEnded /\ chatBody = <<>>

\* C9 as stated: right after resetChat every SessionState field other than
\* conversationId has its value at widget creation, latestProfile included.
C9_ResetClearsSessionState ==
    last.op = "resetChat"
    => /\ ~leadFormVisible /\ ~leadSubmitted
       /\ pendingLeadMeta = NoMeta
       /\ latestProfile = EmptyProfile
       /\ ~chatEnded
       /\ sessionRating = U

\* C10 as stated: when a send fails, the five fields have the values they had when
\* the message was sent.
C10_FailureRestoresSentState ==
    last.op = "fail"
    => /\ chatBody = Append(pre.chatBody, Node("apology"))
       /\ conversationId = last.sent.conversationId
       /\ latestProfile = last.sent.latestProfile
       /\ LeadState = [leadFormVisible |-> last.sent.leadFormVisible,
                       leadSubmitted |-> last.sent.leadSubmitted,
                       pendingLeadMeta |-> last.sent.pendingLeadMeta]

\* C10 amended: the handling of a failed send appends the apology, hides the typing
\* indicator, ends the request and leaves conversationId, latestProfile,
\* leadFormVisible, leadSubmitted and pendingLeadMeta as they were when the failure
\* occurred; conversationId changes only in a step that handles a result event or
\* in resetChat, latestProfile only in a step that handles a result event.
C10_FailureMutatesNothing ==
    /\ last.op = "fail"
       => /\ chatBody = Append(pre.chatBody, Node("apology"))
          /\ ~typingShown
          /\ Len(chats) = pre.chats - 1
          /\ SessionState = PreSessionState
    /\ conversationId # pre.conversationId
       => \/ last.op = "resetChat"
          \/ /\ last.op = "read"
             /\ \E k \in DOMAIN last.events :
                   /\ last.events[k].type = "result"
                   /\ last.events[k].data.present
                   /\ last.events[k].data.conversation_id = conversationId
    /\ latestProfile # pre.latestProfile
       => /\ last.op = "read"
          /\ \E k \in DOMAIN last.events :
                /\ last.events[k].type = "result"
                /\ last.events[k].data.present
                /\ last.events[k].data.profile = latestProfile

\* the stream was aborted after a result had renamed the conversation and stored a
\* profile: the apology follows the reply, and both survive the failure
C10_Witness ==
    /\ last.op = "fail"
    /\ conversationId = ServerId
    /\ latestProfile # EmptyProfile
    /\ last.sent.conversationId = ClientId(1)
    /\ chatBody[Len(chatBody)] = Node("apology")
    /\ Has(chatBody, "assistant")

\* C11 as stated: in every reachable state at most one /api/chat request has been
\* issued and has neither completed nor failed.
C11_AtMostOneInFlight == Len(chats) <= 1

\* C12: every step that ends a request, by the end of the stream, a decoded JSON
\* body or a failure, leaves the typing indicator hidden, and in every state with
\* no request in flight the typing indicator is hidden.
C12_TypingClearedWhenRequestEnds ==
    /\ Len(chats) < pre.chats => ~typingShown
    /\ last.op \in {"done", "fail"} => Len(chats) = pre.chats - 1
    /\ chats = <<>> => ~typingShown

\* a send showed the indicator and its request failed, the last one in flight
C12_Witness ==
    /\ last.op = "fail"
    /\ pre.typingShown /\ ~typingShown
    /\ chats = <<>>
    /\ chatBody[Len(chatBody)] = Node("apology")

\* the success path: the stream of the last request in flight ended after a result
C12_WitnessSuccess ==
    /\ last.op = "done"
    /\ pre.typingShown /\ ~typingShown
    /\ chats = <<>>
    /\ Has(chatBody, "assistant")

\* the step just taken was a run of handleLeadSubmit
Submitted == last.op \in {"submit", "submit-invalid", "submit-unconfigured"}

\* the fields of the submitted form miss the name, or both the email and the phone
Incomplete(fields) == fields.name = "" \/ (fields.email = "" /\ fields.phone = "")

\* C13 as stated: a submission whose name is empty, or whose email and phone are
\* both empty, issues no /api/lead request and leaves leadSubmitted,
\* leadFormVisible, pendingLeadMeta and the transcript unchanged.
C13_IncompleteSubmissionBlocked ==
    Submitted /\ Incomplete(last.fields)
    => /\ Len(leads) = pre.leads
       /\ LeadState = PreLeadState
       /\ chatBody = pre.chatBody

\* C13 amended: the same, in a widget whose RM_BUSINESS_ID is set; in a widget
\* without one every submission, complete or not, issues no request, leaves the
\* lead state alone and appends the not-configured message to the transcript.
C13_IncompleteSubmissionBlockedWhenConfigured ==
    Submitted =>
        /\ Truthy(BUSINESS_ID) /\ Incomplete(last.fields)
           => /\ last.op = "submit-invalid"
              /\ Len(leads) = pre.leads
              /\ LeadState = PreLeadState
              /\ chatBody = pre.chatBody
        /\ ~Truthy(BUSINESS_ID)
           => /\ Len(leads) = pre.leads
              /\ LeadState = PreLeadState
              /\ chatBody = Append(pre.chatBody, Node("not-configured"))

\* a form with a name and neither email nor phone was submitted and stays open
C13_Witness ==
    /\ last.op = "submit-invalid"
    /\ last.fields = [name |-> "x", email |-> "", phone |-> ""]
    /\ leadFormVisible /\ Has(chatBody, "lead-form")

\* C14: when a lead request is accepted, leadSubmitted is true, leadFormVisible is
\* false, pendingLeadMeta is cleared, the request is over, the submitted form is
\* removed if it was still in the transcript, and exactly one confirmation message
\* is appended, at the end.
C14_AcceptedLead ==
    last.op = "lead-ok"
    => LET gone == IF last.lead.attached THEN 1 ELSE 0
       IN  /\ leadSubmitted /\ ~leadFormVisible /\ pendingLeadMeta = NoMeta
           /\ Len(leads) = pre.leads - 1
           /\ Count(chatBody, {"lead-form"}) = Count(pre.chatBody, {"lead-form"}) - gone
           /\ Count(chatBody, {"thanks"}) = Count(pre.chatBody, {"thanks"}) + 1
           /\ Len(chatBody) = Len(pre.chatBody) + 1 - gone
           /\ chatBody[Len(chatBody)] = Node("thanks")

\* the form that was submitted was still open when the acceptance arrived
C14_Witness ==
    /\ last.op = "lead-ok"
    /\ last.lead.attached
    /\ pre.leadFormVisible /\ ~pre.leadSubmitted
    /\ ~Has(chatBody, "lead-form")
    /\ leadSubmitted

\* C15: when a lead request is rejected or fails, the transcript, leadFormVisible,
\* leadSubmitted and pendingLeadMeta are as they were, so a form that was open stays
\* open with its pendingLeadMeta; the request is over; and a /api/lead request is
\* issued only by a run of handleLeadSubmit that found the form complete.
C15_RejectedLead ==
    /\ last.op = "lead-fail"
       => /\ chatBody = pre.chatBody
          /\ LeadState = PreLeadState
          /\ Len(leads) = pre.leads - 1
          /\ last.lead.attached /\ pre.leadFormVisible
             => leadFormVisible /\ Has(chatBody, "lead-form") /\ pendingLeadMeta.present
    /\ Len(leads) > pre.leads
       => last.op = "submit" /\ ~Incomplete(last.fields) /\ Len(leads) = pre.leads + 1

\* the submitted form is still open after the rejection, and no lead was accepted
C15_Witness ==
    /\ last.op = "lead-fail"
    /\ last.lead.attached
    /\ leadFormVisible /\ Has(chatBody, "lead-form")
    /\ ~leadSubmitted
    /\ leads = <<>>

\* C16 as stated: no /api/lead request is accepted in a session in which one was
\* accepted already, and none is sent while leadSubmitted is true.
C16_OneLeadPerSession ==
    /\ last.op = "lead-ok" => ~pre.leadSubmitted
    /\ last.op = "submit" => ~pre.leadSubmitted

\* C17 as stated: in every reachable state conversationId is a non-empty
\* identifier, neither undefined nor the empty string.
C17_ConversationIdNeverEmpty == conversationId \notin {UndefinedId, EmptyId}

RECURSIVE JoinLines(_)
\* lines.join('\n')
JoinLines(lines) ==
    IF Len(lines) = 1 THEN lines[1]
    ELSE lines[1] \o <<NL>> \o JoinLines(Tail(lines))

\* a line that is not blank and is no JSON text
Malformed(line) == Trim(line) # <<>> /\ JSONparse(line) = NoEvent

\* an empty or whitespace-only line
Blank(line) == Trim(line) = <<>>

\* text without those of its newline-terminated lines that are malformed
WithoutMalformed(text) ==
    LET lines == SplitLines(text)
        full == SubSeq(lines, 1, Len(lines) - 1)
    IN  JoinLines(SelectSeq(full, LAMBDA l : ~Malformed(l)) \o <<lines[Len(lines)]>>)

\* text without those of its newline-terminated lines that are blank
WithoutBlank(text) ==
    LET lines == SplitLines(text)
        full == SubSeq(lines, 1, Len(lines) - 1)
    IN  JoinLines(SelectSeq(full, LAMBDA l : ~Blank(l)) \o <<lines[Len(lines)]>>)

\* the result events among events
ResultsIn(events) == SelectSeq(events, LAMBDA e : e.type = "result" /\ e.data.present)

\* C18: whatever the text delivered so far and however the reads have cut it, the
\* events the decode loop has handled are those it handles when the same text comes
\* in a single read, the text it keeps buffered is the text after the last newline,
\* and the transcript holds one reply for each result event of the text.
C18_SplitInvariance ==
    /\ handled = Decoded(<<>>, wire)
    /\ \A i \in DOMAIN chats :
          chats[i].phase = "read" => chats[i].buffer = Remainder(<<>>, wire)
    /\ Count(chatBody, {"assistant"}) = Len(ResultsIn(Decoded(<<>>, wire)))

\* a result event came in three reads, cut inside its text and before its newline
C18_Witness ==
    /\ Len(wire) = 3
    /\ wire[1].t = "head" /\ wire[2].t = "tail" /\ wire[3] = NL
    /\ \E i \in DOMAIN chats : chats[i].reads = 3
    /\ Len(handled) = 1 /\ handled[1].type = "result"
    /\ chatBody = <<Node("user"), Node("assistant")>>

\* C19: the events handled are those of the text with its malformed lines taken
\* out, so a malformed line produces no event and costs no later line its event;
\* and a read that produces no event changes neither the transcript nor SessionState.
C19_MalformedLineIsolation ==
    /\ handled = Decoded(<<>>, WithoutMalformed(wire))
    /\ last.op = "read" /\ last.events = <<>>
       => chatBody = pre.chatBody /\ SessionState = PreSessionState

\* one read brought a line that is no JSON and, after it, a result event, which was
\* handled
C19_Witness ==
    /\ Len(wire) = 4
    /\ wire[1] = Junk /\ wire[2] = NL /\ wire[4] = NL
    /\ \E i \in DOMAIN chats : chats[i].reads = 1
    /\ Len(handled) = 1
    /\ last.op = "read" /\ last.events = handled

\* C20: the end of the stream handles no event and changes neither the transcript
\* nor SessionState, whatever is left in the buffer; and the events handled are those
\* of the text with its empty and whitespace-only lines taken out.
C20_EndOfStream ==
    /\ last.op = "done"
       => /\ chatBody = pre.chatBody
          /\ SessionState = PreSessionState
          /\ Len(chats) = pre.chats - 1
    /\ handled = Decoded(<<>>, WithoutBlank(wire))

\* the stream ended after a whitespace-only line and the whole text of a result
\* event that no newline followed: nothing was handled
C20_Witness ==
    /\ last.op = "done"
    /\ Len(wire) = 4 /\ wire[1] = WS /\ wire[2] = NL
    /\ Len(last.buffer) = 2 /\ JSONparse(last.buffer) # NoEvent
    /\ handled = <<>>
    /\ chatBody = <<Node("user")>>

\* a line that holds an error event
ErrorLine(line) == JSONparse(line) # NoEvent /\ JSONparse(line).type = "error"

\* text without those of its newline-terminated lines that hold an error event
WithoutErrors(text) ==
    LET lines == SplitLines(text)
        full == SubSeq(lines, 1, Len(lines) - 1)
    IN  JoinLines(SelectSeq(full, LAMBDA l : ~ErrorLine(l)) \o <<lines[Len(lines)]>>)

\* the step just taken handled exactly one event, an error
HandledError ==
    /\ last.op = "read"
    /\ Len(last.events) = 1
    /\ last.events[1].type = "error"

\* C21: handling an error event changes no SessionState field, adds nothing to the
\* transcript, keeps the typing indicator and leaves the request in flight; the
\* other events handled are those of the text with its error lines taken out, and
\* each result event, after an error event or not, replaces conversationId, stores
\* its profile, appends one reply and goes through the lead gate.
C21_ErrorEventIsInert ==
    /\ HandledError
       => /\ SessionState = PreSessionState
          /\ chatBody = pre.chatBody
          /\ typingShown = pre.typingShown
          /\ Len(chats) = pre.chats /\ Len(timers) = pre.timers
    /\ SelectSeq(handled, LAMBDA e : e.type # "error") = Decoded(<<>>, WithoutErrors(wire))
    /\ Count(chatBody, {"assistant"}) = Len(ResultsIn(handled))
    /\ HandledResult
       => /\ conversationId = LastData.conversation_id
          /\ latestProfile = LastData.profile
          /\ pre.leadFormVisible \/ Fired

\* an error event was the first event of the stream and a result event the second:
\* the result renamed the conversation, appended its reply and opened the lead form
C21_Witness ==
    /\ HandledResult
    /\ Len(handled) = 2 /\ handled[1].type = "error"
    /\ conversationId = ServerId
    /\ Fired
    /\ chatBody = <<Node("user"), Node("assistant"), TheForm>>

\* C22: a rating is recorded only when none is, by a change of a rating input; while
\* one is recorded the rating inputs are disabled and the thank-you note shown, and
\* no step but resetChat changes it; resetChat clears it and enables the inputs.
C22_RatingIsSingleShot ==
    /\ sessionRating # U => ratingInputsDisabled /\ ~thankYouHidden
    /\ last.op = "handleRating"
       => pre.sessionRating = U /\ sessionRating \in RatingValues
    /\ pre.sessionRating # U /\ last.op # "resetChat"
       => sessionRating = pre.sessionRating
    /\ sessionRating # pre.sessionRating => last.op \in {"handleRating", "resetChat"}
    /\ last.op = "resetChat"
       => sessionRating = U /\ ~ratingInputsDisabled /\ thankYouHidden

\* after the visitor rated the session a second timer ran endChatSession: the rating
\* is the one given and its inputs are still disabled
C22_Witness ==
    /\ last.op = "endChatSession"
    /\ pre.sessionRating = "4.5" /\ sessionRating = "4.5"
    /\ ratingInputsDisabled /\ ~ratingHidden

\* resetChat ran on a rated session
C22_WitnessReset ==
    /\ last.op = "resetChat"
    /\ pre.sessionRating # U /\ sessionRating = U
    /\ ~ratingInputsDisabled

\* the step just taken rendered the lead form: the gate fired, or the specialist
\* button was pressed
Rendered == (HandledResult /\ Fired) \/ last.op = "specialist"

\* the routing renderLeadForm was given
RenderRouting == IF last.op = "specialist" THEN SpecialistRouting ELSE LastData.routing

\* the profile renderLeadForm was given: the event's, or latestProfile when the event
\* has none or the button was pressed
RenderProfile ==
    IF last.op = "read" /\ LastData.profile.present THEN LastData.profile
    ELSE pre.latestProfile

\* C23: a form rendered for routing R and profile P has the contact method "text"
\* when P has a contact_phone and "email" otherwise; its summary, also stored in
\* pendingLeadMeta, is R.summary if present, else P.summary, else the generic
\* prompt; an email or phone on P is the value of the form's field, and a
\* submission carries that value whatever the visitor typed.
C23_LeadFormPrefill ==
    /\ Rendered
       => /\ TheForm.contact = IF Truthy(RenderProfile.contact_phone) THEN "text" ELSE "email"
          /\ TheForm.summary =
                IF Truthy(RenderRouting.summary) THEN RenderRouting.summary
                ELSE IF Truthy(RenderProfile.summary) THEN RenderProfile.summary
                ELSE "generic prompt"
          /\ pendingLeadMeta.present /\ pendingLeadMeta.summary = TheForm.summary
          /\ TheForm.email =
                IF Truthy(RenderProfile.contact_email) THEN RenderProfile.contact_email ELSE ""
          /\ TheForm.phone =
                IF Truthy(RenderProfile.contact_phone) THEN RenderProfile.contact_phone ELSE ""
    /\ last.op \in {"submit", "submit-invalid", "submit-unconfigured"}
       => /\ Truthy(TheForm.email) => last.fields.email = TheForm.email
          /\ Truthy(TheForm.phone) => last.fields.phone = TheForm.phone

\* the gate rendered the form for a result without a profile while a phone and a
\* summary were on file from an earlier result: contact method text, the profile's
\* summary, the phone pre-filled
C23_Witness ==
    /\ HandledResult /\ Fired
    /\ ~LastData.profile.present /\ ~Truthy(LastData.routing.summary)
    /\ TheForm = FormNode("", "555", "psum", "text")
    /\ pendingLeadMeta.summary = "psum"

\* the gate's decision on the result just handled, from the event's routing and
\* profile and the two flags as they were when the event arrived
GateOpen ==
    /\ LastData.routing.present
    /\ \/ LastData.routing.lead_capture = "yes"
       \/ FireCondition(LastData.routing, LastData.profile)
    /\ ~pre.leadFormVisible /\ ~pre.leadSubmitted
    /\ ~HasContact(LastData.profile)

Configured == Streaming(W) \/ Truthy(BUSINESS_ID)

ReplyKinds == {"assistant", "apology"}

\* what sendMessage leaves when it returns before appending anything, or else after
\* it has issued its request
SendEffect ==
    IF chatBody = pre.chatBody
    THEN /\ Len(chats) = pre.chats
         /\ pre.chatEnded \/ TrimInput(chatInput) = ""
    ELSE /\ ~pre.chatEnded
         /\ chatBody = Append(pre.chatBody, Node("user"))
         /\ chatInput = ""
         /\ Len(chats) = pre.chats + 1
         /\ chats[Len(chats)].phase = "fetch"
         /\ chats[Len(chats)].conversation_id = pre.conversationId
         /\ typingShown

\* sendMessage leaves a state with an empty or whitespace-only input as it is
BlankSendIsNoOp ==
    \A text \in {"", " "} :
        sendMessage([W EXCEPT !.chatInput = text]) = [W EXCEPT !.chatInput = text]

\* a reply or apology to a request of the current session stands after a user
\* message in the transcript
ReplyFollowsMessage ==
    /\ last.op \in {"read", "fail"} /\ last.epoch = nextId - 1
    /\ Count(chatBody, ReplyKinds) > Count(pre.chatBody, ReplyKinds)
    => \E j, k \in DOMAIN chatBody :
          /\ j < k
          /\ chatBody[j].kind = "user"
          /\ chatBody[k].kind \in ReplyKinds
          /\ \A m \in DOMAIN chatBody : m > k => chatBody[m].kind \notin ReplyKinds

\* C25 as stated: in every widget a send with an empty or whitespace-only input
\* changes nothing, a send with other text when not Ended appends the user message,
\* clears the input and issues one request in the same step, and the reply or
\* apology to a request stands after the user message in the transcript.
C25_OptimisticSend ==
    /\ BlankSendIsNoOp
    /\ last.op = "sendMessage" => SendEffect
    /\ ReplyFollowsMessage

\* C25 amended: the same in a widget that passes sendMessage's configuration guard;
\* in one that does not, a send when not Ended appends the not-configured message,
\* whatever the input, and issues no request.
C25_OptimisticSendWhenConfigured ==
    /\ Configured => BlankSendIsNoOp
    /\ Configured /\ last.op = "sendMessage" => SendEffect
    /\ ~Configured /\ last.op = "sendMessage"
       => /\ Len(chats) = pre.chats
          /\ chatBody = IF pre.chatEnded THEN pre.chatBody
                        ELSE Append(pre.chatBody, Node("not-configured"))
    /\ ReplyFollowsMessage

\* the reply to the one message sent was appended right after it
C25_Witness ==
    /\ HandledResult /\ last.epoch = nextId - 1
    /\ pre.chatBody = <<Node("user")>>
    /\ chatBody[2] = Node("assistant")
    /\ chatInput = ""

\* a send with a whitespace-only input in a configured widget that is not Ended
C25_WitnessBlank ==
    /\ last.op = "sendMessage" /\ Configured
    /\ chatInput = " " /\ ~chatEnded
    /\ chatBody = pre.chatBody /\ chats = <<>>

\* the requests in flight that the current session issued
OwnChats == SelectSeq(chats, LAMBDA req : req.epoch = nextId - 1)

\* every user message in the transcript whose request has ended has a reply or an
\* apology in the transcript
Answered == Count(chatBody, ReplyKinds) + Len(OwnChats) >= Count(chatBody, {"user"})

\* requests are issued by sendMessage alone, one to a call
OneRequestPerSend ==
    Len(chats) > pre.chats => last.op = "sendMessage" /\ Len(chats) = pre.chats + 1

\* C26: every send whose request has ended has left the reply of a result event or
\* the apology in the transcript.
C26_EverySendAnswered == Answered

\* with a transport that settles every await, requests in flight lead to a state
\* with none in flight and the typing indicator hidden, and no request is issued
\* but by a send
C26_SendsReturnToIdle ==
    /\ [](OneRequestPerSend)
    /\ (chats # <<>>) ~> (chats = <<>> /\ ~typingShown)

\* C27: chatEnded is true exactly when the input and the send button are disabled,
\* the input area is hidden and the rating component is shown, and each of the four
\* is in its other position when chatEnded is false; a rating is recorded only
\* while chatEnded is true.
C27_EndedConsistency ==
    /\ chatEnded <=> Affordances = EndedAffordances
    /\ inputDisabled = chatEnded
    /\ sendDisabled = chatEnded
    /\ inputAreaHidden = chatEnded
    /\ ratingHidden = ~chatEnded
    /\ sessionRating # U => chatEnded

\* an ended session that the visitor has rated
C27_Witness ==
    /\ chatEnded /\ sessionRating \in RatingValues
    /\ Affordances = EndedAffordances
    /\ last.op = "handleRating"

\* the step just taken was the response, failure or end of a request, chat or lead,
\* that a session before the current one had issued
StaleResponse ==
    \/ last.op \in {"read", "fail", "done"} /\ last.epoch < nextId - 1
    \/ last.op \in {"lead-ok", "lead-fail"} /\ last.lead.epoch < nextId - 1

\* C28: a response to a chat request or a lead submission issued before a Reset
\* changes nothing in the session the Reset began: conversationId, the transcript,
\* leadSubmitted and the other SessionState fields are as they were.
C28_SessionIsolation ==
    StaleResponse => SessionState = PreSessionState /\ chatBody = pre.chatBody

\* C29: the callback of an end timer set before a Reset does not move the session
\* the Reset began to Ended.
C29_TimerDiesWithSession ==
    last.op = "endChatSession" /\ last.epoch < nextId - 1 => chatEnded = pre.chatEnded

\* C30: from a state with chatEnded true, no response to an earlier request and no
\* press of the send or specialist button adds a message or a lead form or changes
\* conversationId, latestProfile, leadFormVisible or leadSubmitted.
C30_EndedFreezesConversation ==
    /\ pre.chatEnded
    /\ last.op \in {"read", "fail", "done", "lead-ok", "lead-fail", "sendMessage", "specialist"}
    => /\ Count(chatBody, MessageKinds) = Count(pre.chatBody, MessageKinds)
       /\ Count(chatBody, {"lead-form"}) <= Count(pre.chatBody, {"lead-form"})
       /\ conversationId = pre.conversationId
       /\ latestProfile = pre.latestProfile
       /\ leadFormVisible = pre.leadFormVisible
       /\ leadSubmitted = pre.leadSubmitted

\* C31: the transcript holds at most one lead form, leadFormVisible is true exactly
\* when it holds one, and pendingLeadMeta is present whenever it holds one.
C31_LeadFormFlagConsistency ==
    /\ Count(chatBody, {"lead-form"}) <= 1
    /\ leadFormVisible <=> Has(chatBody, "lead-form")
    /\ Has(chatBody, "lead-form") => pendingLeadMeta.present

====
